---- MODULE Spec2Model ----
(***************************************************************************)
(* A model of the pricing service (class PricingService) and of its rate   *)
(* resolution pipeline: the three source adapters with their relay         *)
(* fallback, the resolver (updateConversionRate), the periodic timer and   *)
(* the subscriber registry.                                                *)
(*                                                                         *)
(* JavaScript runs one task at a time: a synchronous stretch of code is    *)
(* one action.  An await of a network call ends the stretch; the           *)
(* continuation is another action.  Numbers are fixed-point integers,      *)
(* Scale units to one.                                                     *)
(*                                                                         *)
(* Spec is the service as a whole.  PureSpec applies single calls (an      *)
(* adapter run, a relay request, isRateStale) to every input of a bounded  *)
(* set.  RegistrySpec is the subscriber registry under subscribe, the      *)
(* closures it returns and destroy.                                        *)
(***************************************************************************)
EXTENDS Integers, Sequences, FiniteSets, TLC

\* ------------------------------------------------------------------ bounds
MaxNow == 1        \* the clock takes the values 0..MaxNow
MaxCycles == 2     \* resolve cycles in flight at the same time
MaxCalls == 2      \* calls the user makes from outside a callback

\* --------------------------------------------------------------- constants
Scale == 10000                 \* fixed-point unit of a `number`
DefaultInterval == 30000       \* config.updateInterval
DefaultFallback == 163000      \* config.fallbackRate, 16.3
GhsToUsd == 610                \* ghsToUsd = 0.061
PosInf == Scale * Scale           \* the number Infinity (above every finite value used)

DefaultSources == <<"coingecko", "binance", "coinbase">>

DefaultConfig ==
  [baseCurrency |-> "GHS", targetCurrency |-> "USDC",
   updateInterval |-> DefaultInterval, fallbackRate |-> DefaultFallback,
   sources |-> DefaultSources]

\* ------------------------------------------------------------ ConversionRate
Rate(r, t, label) ==
  [from |-> "USDC", to |-> "GHS", rate |-> r, timestamp |-> t, source |-> label]

\* currentRate = null, and an adapter's `return null`
Null == Rate(0, 0, "null")
\* an adapter whose awaited promise never settles
Hung == Rate(0, 0, "hung")

IsNull(r) == r.source = "null"
IsHung(r) == r.source = "hung"

\* --------------------------------------------------------- network outcomes
\* What one fetch() does: k = "hang" (no response ever), "neterr" (the promise
\* rejects), "http" (a response with ok = false), "badjson" (ok, json() throws),
\* "ok" (a parsed body whose rate field is f: "missing", "nan", "inf" or "num"
\* with value v).
Out(k, f, v) == [k |-> k, f |-> f, v |-> v]
OutHang == Out("hang", "missing", 0)
OutNetErr == Out("neterr", "missing", 0)
OutHttp == Out("http", "missing", 0)
OutBadJson == Out("badjson", "missing", 0)
OutNum(v) == Out("ok", "num", v)

\* parseFloat(x) / the raw JSON number, as a number; NaN has no value here and
\* is tested first
IsNaN(o) == o.f \in {"missing", "nan"}
Num(o) == IF o.f = "inf" THEN PosInf ELSE o.v
\* JavaScript truthiness of the raw field
Truthy(o) == ~IsNaN(o) /\ Num(o) # 0

Mul(a, b) == IF a = PosInf \/ b = PosInf THEN PosInf ELSE (a * b) \div Scale
Div(a, b) == IF a = PosInf THEN PosInf
             ELSE IF b = PosInf THEN 0 ELSE (a * Scale) \div b

DirectKeys == {"cg", "bn:USDCUSDT", "bn:USDTGHS", "bn:GHSUSDT", "bn:USDTUSD", "cb"}
ProxyKeys == {"px:cg", "px:bn:USDTGHS", "px:bn:USDCUSDT", "px:bn:USDTUSD", "px:cb"}
NetKeys == DirectKeys \cup ProxyKeys

\* ------------------------------------------------------------ direct adapters
\* A direct fetch carries AbortSignal.timeout: a call that hangs is aborted and
\* rejects like a transport error.
fetchFromCoinGecko(env, t) ==
  LET o == env["cg"] IN
  IF o.k # "ok" THEN Null
  ELSE IF Truthy(o) /\ ~IsNaN(o) /\ Num(o) > 0
       THEN Rate(Num(o), t, "coingecko")
       ELSE Null

fetchFromCoinbase(env, t) ==
  LET o == env["cb"] IN
  IF o.k # "ok" THEN Null
  ELSE IF o.f # "missing" /\ ~IsNaN(o) /\ Num(o) > 0
       THEN Rate(Num(o), t, "coinbase")
       ELSE Null

\* One AbortSignal is shared by the four calls: once a call has hung and the
\* signal has fired, every later call with it rejects at once.
fetchFromBinance(env, t) ==
  LET u == env["bn:USDCUSDT"]
      g == env["bn:USDTGHS"]
      h == env["bn:GHSUSDT"]
      d == env["bn:USDTUSD"]
      Good(o) == o.k = "ok" /\ ~IsNaN(o) /\ Num(o) > 0
      abortedG == g.k = "hang"
      abortedH == abortedG \/ h.k = "hang"
  IN
  IF ~Good(u) THEN Null
  ELSE IF Good(g) THEN Rate(Mul(Num(u), Num(g)), t, "binance")
  ELSE IF ~abortedG /\ Good(h) THEN Rate(Div(Num(u), Num(h)), t, "binance")
  ELSE IF ~abortedH /\ Good(d)
       THEN Rate(Div(Mul(Num(u), Num(d)), GhsToUsd), t, "binance-fallback")
       ELSE Null

\* ------------------------------------------------------------- relay adapter
\* The relay calls carry no signal: a call that hangs never settles.
fetchFromSourceViaProxy(source, env, t) ==
  LET Good(o) == o.k = "ok" /\ ~IsNaN(o) /\ Num(o) > 0
      g == env["px:bn:USDTGHS"]
      u == env["px:bn:USDCUSDT"]
      d == env["px:bn:USDTUSD"]
      usdFallback ==
        IF u.k = "hang" THEN Hung
        ELSE IF u.k = "neterr" THEN Null
        ELSE IF d.k = "hang" THEN Hung
        ELSE IF d.k = "neterr" THEN Null
        ELSE IF Good(u) /\ Good(d)
             THEN Rate(Div(Mul(Num(u), Num(d)), GhsToUsd), t, "binance-proxy-fallback")
             ELSE Null
  IN
  CASE source = "binance" ->
         IF g.k = "hang" THEN Hung
         ELSE IF Good(g)
              THEN IF u.k = "hang" THEN Hung
                   ELSE IF Good(u)
                        THEN Rate(Mul(Num(u), Num(g)), t, "binance-proxy")
                        ELSE usdFallback
              ELSE usdFallback
    [] source = "coingecko" ->
         LET o == env["px:cg"] IN
         IF o.k = "hang" THEN Hung
         ELSE IF o.k = "ok" /\ Truthy(o) /\ ~IsNaN(o) /\ Num(o) > 0
              THEN Rate(Num(o), t, "coingecko-proxy")
              ELSE Null
    [] source = "coinbase" ->
         LET o == env["px:cb"] IN
         IF o.k = "hang" THEN Hung
         ELSE IF o.k = "ok" /\ o.f # "missing" /\ ~IsNaN(o) /\ Num(o) > 0
              THEN Rate(Num(o), t, "coinbase-proxy")
              ELSE Null
    [] OTHER -> Null

KnownSources == {"coingecko", "binance", "coinbase"}

fetchDirect(source, env, t) ==
  CASE source = "coingecko" -> fetchFromCoinGecko(env, t)
    [] source = "binance" -> fetchFromBinance(env, t)
    [] source = "coinbase" -> fetchFromCoinbase(env, t)
    [] OTHER -> Null

fetchRateFromSource(source, env, t) ==
  IF source \notin KnownSources THEN Null
  ELSE LET rate == fetchDirect(source, env, t) IN
       IF ~IsNull(rate) THEN rate
       ELSE fetchFromSourceViaProxy(source, env, t)

\* ------------------------------------------------------------------- state
VARIABLES
  config,        \* this.config
  currentRate,   \* this.currentRate (Null: null)
  updateTimer,   \* this.updateTimer: an interval id, 0 for null
  timers,        \* the runtime's active intervals, [id, period]
  subscribers,   \* this.subscribers: the registrations [cb, reg] in array order
  cycles,        \* the calls of updateConversionRate in flight, oldest first
  notify,        \* the forEach of notifySubscribers in progress
  now,           \* Date.now()
  calls,         \* calls made by the user so far
  handles,       \* the unsubscribe closures subscribe has returned
  initDone,      \* initializePricing has run past its await
  last,          \* history: the resolve cycle the last step completed
  round,         \* history: the notification round of the last step
  quiet,         \* history: destroy() was called and the user has called nothing since
  late,          \* history: a callback was invoked while quiet
  probe          \* a single call of an adapter, the relay or a query: inputs and outcome

vars == <<config, currentRate, updateTimer, timers, subscribers, cycles, notify,
          now, calls, handles, initDone, last, round, quiet, late, probe>>

Callbacks == {"f", "g"}
NoProbe == [op |-> "none"]
NoHandle == [cb |-> "none", reg |-> 0]

IdleCycle == [st |-> "idle", kind |-> "none", srcs |-> <<>>, i |-> 0,
              rates |-> <<>>, results |-> <<>>]
NotifyIdle == [active |-> FALSE, k |-> 0, len |-> 0, rate |-> Null,
               detached |-> FALSE, old |-> <<>>, kind |-> "none"]
NoRound == [start |-> <<>>, called |-> <<>>, removed |-> {}, threw |-> {},
            done |-> FALSE]
NoLast == [done |-> FALSE, kind |-> "none", srcs |-> <<>>, results |-> <<>>,
           fallback |-> 0, at |-> 0, written |-> Null, notified |-> Null,
           held |-> Null, writes |-> 0, rounds |-> 0]

\* The service's fields (and the history they feed) as one value, so that a
\* method is an operator from state to state and a handler is a composition.
S == [config |-> config, currentRate |-> currentRate, updateTimer |-> updateTimer,
      timers |-> timers, subscribers |-> subscribers, notify |-> notify,
      initDone |-> initDone, round |-> IF notify.active THEN round ELSE NoRound,
      quiet |-> quiet, late |-> late,
      writes |-> 0, rounds |-> 0, notified |-> Null, held |-> Null]

Commit(s) ==
  /\ config' = s.config
  /\ currentRate' = s.currentRate
  /\ updateTimer' = s.updateTimer
  /\ timers' = s.timers
  /\ subscribers' = s.subscribers
  /\ notify' = s.notify
  /\ initDone' = s.initDone
  /\ round' = s.round
  /\ quiet' = s.quiet
  /\ late' = s.late
  /\ probe' = probe

Min(a, b) == IF a < b THEN a ELSE b
RemoveAt(q, i) == [j \in 1..(Len(q) - 1) |-> IF j < i THEN q[j] ELSE q[j + 1]]

\* ------------------------------------------------------------------- timer
clearInterval(ts, id) == {t \in ts : t.id # id}
FreshId(ts) ==
  CHOOSE i \in 1..(Cardinality(ts) + 1) : \A t \in ts : t.id # i

startPeriodicUpdatesNoClear(s) ==
  [s EXCEPT !.timers = @ \cup {[id |-> FreshId(@), period |-> s.config.updateInterval]},
            !.updateTimer = FreshId(s.timers)]

startPeriodicUpdates(s) ==
  LET kept == IF s.updateTimer # 0 THEN clearInterval(s.timers, s.updateTimer)
              ELSE s.timers
      id == FreshId(kept)
  IN [s EXCEPT !.timers = kept \cup {[id |-> id, period |-> s.config.updateInterval]},
               !.updateTimer = id]

\* ------------------------------------------------------------ notification
\* The array forEach is walking: this.subscribers, unless destroy() has put a
\* new array in that field since the walk began.
Walked(s) == IF s.notify.detached THEN s.notify.old ELSE s.subscribers

notifySubscribers(s, rate) ==
  [s EXCEPT !.notify = [active |-> TRUE, k |-> 1, len |-> Len(s.subscribers),
                        rate |-> rate, detached |-> FALSE, old |-> <<>>,
                        kind |-> "none"],
            !.rounds = @ + 1,
            !.notified = rate,
            !.held = s.currentRate,
            !.round = [start |-> s.subscribers, called |-> <<>>, removed |-> {},
                       threw |-> {}, done |-> FALSE]]

setFallbackRateHardcoded(s, t) ==
  LET r == Rate(DefaultFallback, t, "fallback") IN
  notifySubscribers([s EXCEPT !.currentRate = r, !.writes = @ + 1], r)

setFallbackRateNoNotify(s, t) ==
  [s EXCEPT !.currentRate = Rate(s.config.fallbackRate, t, "fallback"),
            !.writes = @ + 1]

setFallbackRate(s, t) ==
  LET r == Rate(s.config.fallbackRate, t, "fallback") IN
  notifySubscribers([s EXCEPT !.currentRate = r, !.writes = @ + 1], r)

\* rates.reduce((latest, current) => current.timestamp > latest.timestamp ? current : latest)
RECURSIVE reduceLatest(_, _)
reduceLatest(latest, rest) ==
  IF rest = <<>> THEN latest
  ELSE reduceLatest(IF Head(rest).timestamp > latest.timestamp THEN Head(rest)
                    ELSE latest,
                    Tail(rest))

RECURSIVE reduceLatestOrEqual(_, _)
reduceLatestOrEqual(latest, rest) ==
  IF rest = <<>> THEN latest
  ELSE reduceLatestOrEqual(IF Head(rest).timestamp >= latest.timestamp
                           THEN Head(rest) ELSE latest,
                           Tail(rest))

latestRateOrEqual(rates) == reduceLatestOrEqual(Head(rates), Tail(rates))

latestRate(rates) == reduceLatest(Head(rates), Tail(rates))

resolveRatesKeepCached(s, rates, t) ==
  IF Len(rates) > 0
  THEN notifySubscribers([s EXCEPT !.currentRate = latestRate(rates),
                                   !.writes = @ + 1],
                         latestRate(rates))
  ELSE s

\* updateConversionRate from the end of its loop
resolveRates(s, rates, t) ==
  IF Len(rates) > 0
  THEN notifySubscribers([s EXCEPT !.currentRate = latestRate(rates),
                                   !.writes = @ + 1],
                         latestRate(rates))
  ELSE setFallbackRate(s, t)

\* the loop body of updateConversionRate, given what fetchRateFromSource gave
pushResult(c, r) ==
  [c EXCEPT !.rates = IF IsNull(r) THEN @ ELSE Append(@, r),
            !.results = Append(@, r),
            !.i = @ + 1]

\* what follows `await this.updateConversionRate()` in the caller
afterResolve(s, kind) ==
  IF kind = "init" THEN startPeriodicUpdates([s EXCEPT !.initDone = TRUE])
  ELSE s

\* forEach visits index k while k < len and the index is still in the array;
\* when none is left the round, and the handler that began it, is over.
Drain(s) ==
  IF s.notify.active /\ s.notify.k > Min(s.notify.len, Len(Walked(s)))
  THEN afterResolve([s EXCEPT !.notify = NotifyIdle, !.round.done = TRUE],
                    s.notify.kind)
  ELSE s

\* ------------------------------------------------------------ subscriptions
subscribe(s, cb, reg) ==
  [s EXCEPT !.subscribers = Append(@, [cb |-> cb, reg |-> reg])]

IndexOf(q, cb) ==
  IF \E i \in 1..Len(q) : q[i].cb = cb
  THEN CHOOSE i \in 1..Len(q) : q[i].cb = cb /\ \A j \in 1..(i - 1) : q[j].cb # cb
  ELSE 0

\* the closure subscribe returns
unsubscribe(s, h) ==
  LET index == IndexOf(s.subscribers, h.cb) IN
  IF index > 0
  THEN [s EXCEPT !.subscribers = RemoveAt(@, index),
                 !.round.removed = IF s.notify.active /\ ~s.notify.detached
                                   THEN @ \cup {s.subscribers[index].reg}
                                   ELSE @]
  ELSE s

destroy(s) ==
  [s EXCEPT !.timers = IF s.updateTimer # 0 THEN clearInterval(@, s.updateTimer) ELSE @,
            !.updateTimer = 0,
            !.subscribers = <<>>,
            !.notify = IF @.active /\ ~@.detached
                       THEN [@ EXCEPT !.detached = TRUE, !.old = s.subscribers]
                       ELSE @,
            !.round.removed = IF s.notify.active /\ ~s.notify.detached
                              THEN @ \cup {s.subscribers[i].reg : i \in 1..Len(s.subscribers)}
                              ELSE @,
            !.quiet = TRUE,
            !.late = FALSE]

Merge(cfg, p) == [f \in DOMAIN cfg |-> IF f \in DOMAIN p THEN p[f] ELSE cfg[f]]

updateConfig(s, p) ==
  LET s1 == [s EXCEPT !.config = Merge(@, p)] IN
  IF "updateInterval" \in DOMAIN p /\ p.updateInterval # 0
  THEN startPeriodicUpdates(s1)
  ELSE s1

\* ----------------------------------------------------------- environment
\* What the providers and the relay answer during one adapter run: every
\* direct call behaves as d, every relay call as p.
ValidValue(key) ==
  CASE key \in {"cg", "px:cg"} -> 162000
    [] key \in {"cb", "px:cb"} -> 161000
    [] key \in {"bn:USDCUSDT", "px:bn:USDCUSDT"} -> 10010
    [] key \in {"bn:USDTGHS", "px:bn:USDTGHS"} -> 125000
    [] key = "bn:GHSUSDT" -> 800
    [] OTHER -> 10000

EnvOf(d, p) ==
  [key \in NetKeys |->
     LET k == IF key \in DirectKeys THEN d ELSE p IN
     IF k = "ok" THEN OutNum(ValidValue(key)) ELSE Out(k, "missing", 0)]

Envs == {EnvOf("ok", "ok"), EnvOf("http", "neterr"), EnvOf("hang", "hang")}

\* Partial<PricingConfig> values the user passes to updateConfig
Patches ==
  {[updateInterval |-> 60000], [updateInterval |-> 0], [fallbackRate |-> 170000],
   [sources |-> <<>>], [sources |-> <<"unknown">>]}

\* ------------------------------------------------------------------ actions
Init ==
  /\ config = DefaultConfig
  /\ currentRate = Null
  /\ updateTimer = 0
  /\ timers = {}
  /\ subscribers = <<>>
  /\ cycles = <<[st |-> "await", kind |-> "init", srcs |-> DefaultSources,
                  i |-> 1, rates |-> <<>>, results |-> <<>>]>>
  /\ notify = NotifyIdle
  /\ now = 0
  /\ calls = 0
  /\ handles = {}
  /\ initDone = FALSE
  /\ last = NoLast
  /\ round = NoRound
  /\ quiet = FALSE
  /\ late = FALSE
  /\ probe = NoProbe

\* The end of updateConversionRate for cycle c, run from state s: the write,
\* the notification round (as far as the first callback) and, once the round
\* is over, the rest of the caller.
Complete(s, c) ==
  LET s1 == resolveRates(s, c.rates, now)
      s2 == IF s1.notify.active THEN Drain([s1 EXCEPT !.notify.kind = c.kind])
            ELSE afterResolve(s1, c.kind)
  IN /\ Commit(s2)
     /\ last' = [done |-> TRUE, kind |-> c.kind, srcs |-> c.srcs,
                 results |-> c.results, fallback |-> s.config.fallbackRate,
                 at |-> now, written |-> s1.currentRate,
                 notified |-> s1.notified, held |-> s1.held,
                 writes |-> s1.writes, rounds |-> s1.rounds]

\* updateConversionRate up to its first await
StartCycle(s, kind) ==
  IF Len(s.config.sources) = 0
  THEN Complete(s, [IdleCycle EXCEPT !.kind = kind]) /\ UNCHANGED cycles
  ELSE /\ Len(cycles) < MaxCycles
       /\ cycles' = Append(cycles,
                           [st |-> "await", kind |-> kind, srcs |-> s.config.sources,
                            i |-> 1, rates |-> <<>>, results |-> <<>>])
       /\ Commit(s)
       /\ last' = NoLast

\* fetchRateFromSource settles for the source cycle n awaits
CycleStep(n) ==
  /\ ~notify.active
  /\ n <= Len(cycles)
  /\ cycles[n].st = "await"
  /\ \E env \in Envs :
       LET c == cycles[n]
           r == fetchRateFromSource(c.srcs[c.i], env, now)
           c2 == pushResult(c, r)
       IN IF IsHung(r)
          THEN /\ cycles' = [cycles EXCEPT ![n] = [IdleCycle EXCEPT !.st = "hung",
                                                                    !.kind = c.kind]]
               /\ Commit(S)
               /\ last' = NoLast
          ELSE IF c2.i <= Len(c2.srcs)
          THEN /\ cycles' = [cycles EXCEPT ![n] = c2]
               /\ Commit(S)
               /\ last' = NoLast
          ELSE /\ cycles' = RemoveAt(cycles, n)
               /\ Complete(S, c2)
  /\ UNCHANGED <<now, calls, handles>>

\* the interval's callback
TimerFire ==
  /\ ~notify.active
  /\ timers # {}
  /\ StartCycle(S, "timer")
  /\ UNCHANGED <<now, calls, handles>>

ForceUpdate ==
  /\ ~notify.active
  /\ calls < MaxCalls
  /\ StartCycle([S EXCEPT !.quiet = FALSE, !.late = FALSE], "force")
  /\ calls' = calls + 1
  /\ UNCHANGED <<now, handles>>

UpdateConfig(p) ==
  /\ ~notify.active
  /\ calls < MaxCalls
  /\ Commit(updateConfig([S EXCEPT !.quiet = FALSE, !.late = FALSE], p))
  /\ calls' = calls + 1
  /\ last' = NoLast
  /\ UNCHANGED <<cycles, now, handles>>

Subscribe(cb) ==
  /\ ~notify.active
  /\ calls < MaxCalls
  /\ LET reg == Cardinality(handles) + 1 IN
       /\ Commit(subscribe([S EXCEPT !.quiet = FALSE, !.late = FALSE], cb, reg))
       /\ handles' = handles \cup {[cb |-> cb, reg |-> reg]}
  /\ calls' = calls + 1
  /\ last' = NoLast
  /\ UNCHANGED <<cycles, now>>

Unsubscribe(h) ==
  /\ ~notify.active
  /\ calls < MaxCalls
  /\ Commit(unsubscribe(S, h))
  /\ calls' = calls + 1
  /\ last' = NoLast
  /\ UNCHANGED <<cycles, now, handles>>

Destroy ==
  /\ ~notify.active
  /\ calls < MaxCalls
  /\ Commit(destroy(S))
  /\ calls' = calls + 1
  /\ last' = NoLast
  /\ UNCHANGED <<cycles, now, handles>>

\* What a subscriber's callback does when called: it may invoke an unsubscribe
\* closure, call destroy(), and throw.
Behaviours ==
  {b \in [h : handles \cup {NoHandle}, destroy : BOOLEAN, throw : BOOLEAN] :
     b.destroy => (b.h = NoHandle /\ ~b.throw)}

callback(s, e, b) ==
  LET s1 == IF b.h # NoHandle THEN unsubscribe(s, b.h) ELSE s
      s2 == IF b.destroy THEN destroy(s1) ELSE s1
  IN [s2 EXCEPT !.round.threw = IF b.throw THEN @ \cup {e.reg} ELSE @]

\* one iteration of the forEach in notifySubscribers: try { callback(rate) } catch
NotifyStep ==
  /\ notify.active
  /\ \E b \in Behaviours :
       LET e == Walked(S)[notify.k]
           s1 == [S EXCEPT !.round.called = Append(@, e.reg),
                           !.late = @ \/ S.quiet]
           s2 == callback(s1, e, b)
           s3 == [s2 EXCEPT !.notify.k = @ + 1]
       IN Commit(Drain(s3))
  /\ UNCHANGED <<cycles, now, calls, handles, last>>

Tick ==
  /\ ~notify.active
  /\ now < MaxNow
  /\ now' = now + 1
  /\ Commit(S)
  /\ last' = NoLast
  /\ UNCHANGED <<cycles, calls, handles>>

Next ==
  \/ \E n \in 1..MaxCycles : CycleStep(n)
  \/ TimerFire
  \/ ForceUpdate
  \/ \E p \in Patches : UpdateConfig(p)
  \/ \E cb \in Callbacks : Subscribe(cb)
  \/ \E h \in handles : Unsubscribe(h)
  \/ Destroy
  \/ NotifyStep
  \/ Tick

Spec == Init /\ [][Next]_vars

\* ------------------------------------------------------------------ queries
getCurrentRate == currentRate

\* -------------------------------------------------------------------- relay
\* What a provider does with one request: k as for Out, the status line, and the
\* body: an error document (err # "") or the data whose rate field is (f, v).
Upstream(k, status, err, f, v) ==
  [k |-> k, status |-> status, err |-> err, f |-> f, v |-> v]

\* NextResponse.json(body, {status})
Resp(status, err, f, v) == [status |-> status, err |-> err, f |-> f, v |-> v]

\* JSON.stringify of the parsed data: a number that parsed to Infinity (the
\* numeric field of coingecko) is written as null; a string field is kept.
Reserialise(source, f) == IF source = "coingecko" /\ f = "inf" THEN "missing" ELSE f

\* GET of route.ts for ?source=&symbol= ("" for a parameter that is not
\* given), u being what the provider does with the request the relay makes.
GET(source, symbol, u) ==
  IF source = "" \/ symbol = ""
  THEN Resp(400, "Missing required parameters: source and symbol", "missing", 0)
  ELSE IF source \notin KnownSources
  THEN Resp(400, "Unsupported source", "missing", 0)
  ELSE IF source = "coingecko" /\ symbol # "USDCGHS"
  THEN Resp(400, "Unsupported symbol for CoinGecko", "missing", 0)
  ELSE IF u.k \in {"neterr", "hang", "badjson"}
  THEN Resp(500, "Failed to fetch pricing data", "missing", 0)
  ELSE IF u.k = "http"
  THEN Resp(u.status, "API error", "missing", 0)
  ELSE Resp(200, "", Reserialise(source, u.f), u.v)

\* What a direct fetch of the provider sees.
Direct(u) == Out(u.k, u.f, u.v)

\* What fetch(proxyUrl) sees of the relay's response; link is the connection
\* from the client to the relay: "ok", "neterr" or "hang".
ClientSees(link, resp) ==
  IF link = "hang" THEN OutHang
  ELSE IF link = "neterr" THEN OutNetErr
  ELSE IF resp.status < 200 \/ resp.status > 299 THEN OutHttp
  ELSE Out("ok", IF resp.err # "" THEN "missing" ELSE resp.f, resp.v)

\* the request each relay call of the client makes, and the provider request
\* it stands for
ProxyRequest(key) ==
  CASE key = "px:cg" -> [source |-> "coingecko", symbol |-> "USDCGHS", of |-> "cg"]
    [] key = "px:cb" -> [source |-> "coinbase", symbol |-> "USDC", of |-> "cb"]
    [] key = "px:bn:USDTGHS" ->
         [source |-> "binance", symbol |-> "USDTGHS", of |-> "bn:USDTGHS"]
    [] key = "px:bn:USDCUSDT" ->
         [source |-> "binance", symbol |-> "USDCUSDT", of |-> "bn:USDCUSDT"]
    [] key = "px:bn:USDTUSD" ->
         [source |-> "binance", symbol |-> "USDTUSD", of |-> "bn:USDTUSD"]

\* The network as the adapters see it when the providers behave as up (one
\* outcome for each provider request) and the relay is reached over link.
World(up, link) ==
  [key \in NetKeys |->
     IF key \in DirectKeys THEN Direct(up[key])
     ELSE LET q == ProxyRequest(key) IN
          ClientSees(link, GET(q.source, q.symbol, up[q.of]))]

\* ------------------------------------------------------- single adapter runs
\* What a provider may do with a request, and the outcome of that kind for the
\* request key.
Kinds ==
  {"neterr", "hang", "http", "badjson", "missing", "nan", "zero", "negative",
   "inf", "valid"}

UpstreamOf(key, kind) ==
  CASE kind \in {"neterr", "hang"} -> Upstream(kind, 0, "", "missing", 0)
    [] kind = "http" -> Upstream("http", 503, "upstream error", "missing", 0)
    [] kind = "badjson" -> Upstream("badjson", 200, "", "missing", 0)
    [] kind \in {"missing", "nan", "inf"} -> Upstream("ok", 200, "", kind, 0)
    [] kind = "zero" -> Upstream("ok", 200, "", "num", 0)
    [] kind = "negative" -> Upstream("ok", 200, "", "num", 0 - ValidValue(key))
    [] kind = "valid" -> Upstream("ok", 200, "", "num", ValidValue(key))

\* the providers' behaviour in one run of the adapter of a source: kinds gives
\* the kind for each request of that source, the other providers answer well
SourceKeys(source) ==
  CASE source = "coingecko" -> {"cg"}
    [] source = "coinbase" -> {"cb"}
    [] source = "binance" -> {"bn:USDCUSDT", "bn:USDTGHS", "bn:GHSUSDT", "bn:USDTUSD"}
    [] OTHER -> {}

Providers(source, kinds) ==
  [key \in DirectKeys |->
     UpstreamOf(key, IF key \in SourceKeys(source) THEN kinds[key] ELSE "valid")]

Sources == KnownSources \cup {"unknown"}
Links == {"ok", "neterr", "hang"}

\* The requests a direct adapter sends, in order.  A fetch given a signal that
\* has already fired rejects without sending anything.
directCalls(source, env) ==
  LET Good(o) == o.k = "ok" /\ ~IsNaN(o) /\ Num(o) > 0
      u == env["bn:USDCUSDT"]
      g == env["bn:USDTGHS"]
      h == env["bn:GHSUSDT"]
      abortedG == g.k = "hang"
      abortedH == abortedG \/ h.k = "hang"
  IN
  CASE source = "coingecko" -> <<"cg">>
    [] source = "coinbase" -> <<"cb">>
    [] source = "binance" ->
         IF ~Good(u) THEN <<"bn:USDCUSDT">>
         ELSE IF Good(g) THEN <<"bn:USDCUSDT", "bn:USDTGHS">>
         ELSE IF abortedG THEN <<"bn:USDCUSDT", "bn:USDTGHS">>
         ELSE IF Good(h) \/ abortedH THEN <<"bn:USDCUSDT", "bn:USDTGHS", "bn:GHSUSDT">>
         ELSE <<"bn:USDCUSDT", "bn:USDTGHS", "bn:GHSUSDT", "bn:USDTUSD">>
    [] OTHER -> <<>>

\* The requests fetchFromSourceViaProxy sends to the relay, in order.
proxyCalls(source, env) ==
  LET Good(o) == o.k = "ok" /\ ~IsNaN(o) /\ Num(o) > 0
      g == env["px:bn:USDTGHS"]
      u == env["px:bn:USDCUSDT"]
      usdFallback ==
        IF u.k \in {"hang", "neterr"} THEN <<"px:bn:USDCUSDT">>
        ELSE <<"px:bn:USDCUSDT", "px:bn:USDTUSD">>
  IN
  CASE source = "coingecko" -> <<"px:cg">>
    [] source = "coinbase" -> <<"px:cb">>
    [] source = "binance" ->
         IF g.k = "hang" THEN <<"px:bn:USDTGHS">>
         ELSE IF Good(g)
              THEN IF u.k = "hang" \/ Good(u) THEN <<"px:bn:USDTGHS", "px:bn:USDCUSDT">>
                   ELSE <<"px:bn:USDTGHS", "px:bn:USDCUSDT">> \o usdFallback
              ELSE <<"px:bn:USDTGHS">> \o usdFallback
    [] OTHER -> <<>>

\* fetchRateFromSource after its switch: `if (rate) return rate`, else go on to
\* the relay
afterDirectAlwaysProxy(p, rate) ==
  [p EXCEPT !.direct = rate, !.st = "relay"]

afterDirect(p, rate) ==
  IF ~IsNull(rate) THEN [p EXCEPT !.direct = rate, !.result = rate, !.st = "done"]
  ELSE [p EXCEPT !.direct = rate, !.st = "relay"]

\* fetchRateFromSource(source) up to the end of its direct attempt
FetchDirect(source, kinds, link) ==
  /\ probe = NoProbe
  /\ LET up == Providers(source, kinds)
         env == World(up, link)
         p == [op |-> "fetch", source |-> source, up |-> up, link |-> link,
               st |-> "direct", direct |-> Null, relay |-> Null, result |-> Null,
               log |-> <<>>]
     IN probe' = IF source \notin KnownSources THEN [p EXCEPT !.st = "done"]
                 ELSE afterDirect([p EXCEPT !.log = directCalls(source, env)],
                                  fetchDirect(source, env, now))
  /\ UNCHANGED <<config, currentRate, updateTimer, timers, subscribers, cycles,
                 notify, now, calls, handles, initDone, last, round, quiet, late>>

\* the relay attempt of fetchRateFromSource, and its return
FetchViaProxy ==
  /\ probe.op = "fetch"
  /\ probe.st = "relay"
  /\ LET env == World(probe.up, probe.link)
         rate == fetchFromSourceViaProxy(probe.source, env, now)
         p == [probe EXCEPT !.log = @ \o proxyCalls(probe.source, env)]
     IN probe' = IF IsHung(rate) THEN [p EXCEPT !.st = "hung"]
                 ELSE [p EXCEPT !.relay = rate, !.result = rate, !.st = "done"]
  /\ UNCHANGED <<config, currentRate, updateTimer, timers, subscribers, cycles,
                 notify, now, calls, handles, initDone, last, round, quiet, late>>

KindsOf(source) == [SourceKeys(source) -> Kinds]

\* both routes of a source over the same providers, the relay being reachable
Routes(source, kinds) ==
  /\ probe = NoProbe
  /\ LET up == Providers(source, kinds)
         env == World(up, "ok")
     IN probe' = [op |-> "routes", source |-> source, up |-> up,
                  direct |-> fetchDirect(source, env, now),
                  relay |-> fetchFromSourceViaProxy(source, env, now)]
  /\ UNCHANGED <<config, currentRate, updateTimer, timers, subscribers, cycles,
                 notify, now, calls, handles, initDone, last, round, quiet, late>>

\* ------------------------------------------------------ single relay requests
RelaySources == {"", "binance", "coingecko", "coinbase", "kraken"}
RelaySymbols == {"", "USDCGHS", "USDC", "USDTGHS"}

RelayRequest(source, symbol, kind) ==
  /\ probe = NoProbe
  /\ LET u == UpstreamOf("relay", kind) IN
       probe' = [op |-> "relay", source |-> source, symbol |-> symbol, up |-> u,
                 resp |-> GET(source, symbol, u)]
  /\ UNCHANGED <<config, currentRate, updateTimer, timers, subscribers, cycles,
                 notify, now, calls, handles, initDone, last, round, quiet, late>>

\* ------------------------------------------------------------------- rate age
\* a number as the fraction n / d, d > 0
Frac(n, d) == [n |-> n, d |-> d]
Greater(x, y) == x.n * y.d > y.n * x.d

MsPerMinute == 60000
DefaultMaxAge == 5

\* getRateAge() at the time nowMs (milliseconds), in minutes
getRateAge(rate, nowMs) ==
  IF IsNull(rate) THEN Frac(0, 1)
  ELSE Frac(nowMs - rate.timestamp, MsPerMinute)

isRateStaleOrEqual(rate, nowMs, arg) ==
  LET maxAgeMinutes == IF arg = <<>> THEN DefaultMaxAge ELSE arg[1] IN
  ~Greater(Frac(maxAgeMinutes, 1), getRateAge(rate, nowMs))

\* isRateStale(maxAgeMinutes = 5); arg is the argument list, <<>> or <<m>>
isRateStale(rate, nowMs, arg) ==
  LET maxAgeMinutes == IF arg = <<>> THEN DefaultMaxAge ELSE arg[1] IN
  Greater(getRateAge(rate, nowMs), Frac(maxAgeMinutes, 1))

Stamps == {0, 1000}
Ages == {0, 1, 59999, 60000, 60001, 299999, 300000, 300001, 600000, 600001}
MaxAges == {<<>>, <<0>>, <<1>>, <<5>>, <<10>>}

StaleQuery(ts, age, arg, held) ==
  /\ probe = NoProbe
  /\ LET rate == IF held THEN Rate(DefaultFallback, ts, "fallback") ELSE Null IN
       probe' = [op |-> "stale", rate |-> rate, nowMs |-> ts + age, arg |-> arg,
                 stale |-> isRateStale(rate, ts + age, arg)]
  /\ UNCHANGED <<config, currentRate, updateTimer, timers, subscribers, cycles,
                 notify, now, calls, handles, initDone, last, round, quiet, late>>

\* --------------------------------------------- specification of single calls
\* a run starts from the idle state only
Idle == probe = NoProbe

PureNext ==
  \/ Idle /\ \E source \in Sources, link \in Links :
               \E kinds \in KindsOf(source) : FetchDirect(source, kinds, link)
  \/ FetchViaProxy
  \/ Idle /\ \E source \in KnownSources :
               \E kinds \in KindsOf(source) : Routes(source, kinds)
  \/ Idle /\ \E source \in RelaySources, symbol \in RelaySymbols, kind \in Kinds :
               RelayRequest(source, symbol, kind)
  \/ Idle /\ \E ts \in Stamps, age \in Ages, arg \in MaxAges, held \in BOOLEAN :
               StaleQuery(ts, age, arg, held)

PureSpec == Init /\ [][PureNext]_vars

\* ---------------------------------------------------------------- conversion
\* Amounts are fractions in lowest terms, so that division and multiplication
\* are exact; a rate of x units is the number x / Scale.
RECURSIVE Gcd(_, _)
Gcd(a, b) == IF b = 0 THEN a ELSE Gcd(b, a % b)

Reduce(x) == LET g == Gcd(x.n, x.d) IN Frac(x.n \div g, x.d \div g)

Amounts == {Frac(0, 1), Frac(1, 1), Frac(5, 2), Frac(100, 1)}

convertGhsToUsdc(ghsAmount) ==
  IF IsNull(currentRate)
  THEN Reduce(Frac(ghsAmount.n * Scale, ghsAmount.d * config.fallbackRate))
  ELSE Reduce(Frac(ghsAmount.n * Scale, ghsAmount.d * currentRate.rate))

convertUsdcToGhsByFallback(usdcAmount) ==
  Reduce(Frac(usdcAmount.n * config.fallbackRate, usdcAmount.d * Scale))

convertUsdcToGhs(usdcAmount) ==
  IF IsNull(currentRate)
  THEN Reduce(Frac(usdcAmount.n * config.fallbackRate, usdcAmount.d * Scale))
  ELSE Reduce(Frac(usdcAmount.n * currentRate.rate, usdcAmount.d * Scale))

\* ------------------------------------- specification of the subscriber registry
\* subscribe, the closures it returns and destroy, called by the user in any
\* order while nothing else runs
MaxRegs == 3

RegSubscribe(cb) ==
  /\ Cardinality(handles) < MaxRegs
  /\ LET reg == Cardinality(handles) + 1
         s == subscribe(S, cb, reg)
     IN /\ subscribers' = s.subscribers
        /\ handles' = handles \cup {[cb |-> cb, reg |-> reg]}
  /\ probe' = NoProbe
  /\ UNCHANGED <<config, currentRate, updateTimer, timers, cycles, notify, now,
                 calls, initDone, last, round, quiet, late>>

RegUnsubscribe(h) ==
  /\ LET s == unsubscribe(S, h) IN
       /\ subscribers' = s.subscribers
       /\ probe' = [op |-> "unsubscribe", h |-> h, before |-> subscribers,
                    after |-> s.subscribers]
  /\ UNCHANGED <<config, currentRate, updateTimer, timers, cycles, notify, now,
                 calls, handles, initDone, last, round, quiet, late>>

RegDestroy ==
  /\ LET s == destroy(S) IN
       /\ subscribers' = s.subscribers
       /\ timers' = s.timers
       /\ updateTimer' = s.updateTimer
       /\ quiet' = s.quiet
  /\ probe' = NoProbe
  /\ UNCHANGED <<config, currentRate, cycles, notify, now, calls, handles,
                 initDone, last, round, late>>

RegistryNext ==
  \/ \E cb \in Callbacks : RegSubscribe(cb)
  \/ \E h \in handles : RegUnsubscribe(h)
  \/ RegDestroy

RegistrySpec == Init /\ [][RegistryNext]_vars

\* ------------------------------------------------------------------- claims
Successes(results) == {j \in 1..Len(results) : ~IsNull(results[j])}
Count(q, x) == Cardinality({j \in 1..Len(q) : q[j] = x})

\* C1: once the initial resolution attempt has completed, the current-rate slot
\* is set, and getCurrentRate returns a rate in every later state, whatever
\* timer cycles, forceUpdate, updateConfig, subscribe, unsubscribe and destroy
\* calls follow.
C1_RateSetAfterInit == initDone => ~IsNull(getCurrentRate)

C1_Witness ==
  /\ initDone
  /\ quiet
  /\ last.done /\ last.kind = "timer"
  /\ ~IsNull(getCurrentRate)

\* C2: the rate a resolve cycle writes is chosen among the results of all the
\* sources configured for the cycle (a failing source does not stop the later
\* ones from being tried), it has the greatest timestamp of them, and of
\* several with the greatest timestamp it is the one of the earliest source.
C2_LatestOfAllSources ==
  last.done =>
    /\ Len(last.results) = Len(last.srcs)
    /\ Successes(last.results) # {} =>
         \E j \in Successes(last.results) :
           /\ last.written = last.results[j]
           /\ getCurrentRate = last.results[j]
           /\ \A k \in Successes(last.results) :
                /\ last.results[k].timestamp <= last.results[j].timestamp
                /\ last.results[k].timestamp = last.results[j].timestamp => j <= k

C2_Witness ==
  /\ last.done
  /\ Len(last.results) = 3
  /\ IsNull(last.results[1])
  /\ ~IsNull(last.results[2]) /\ ~IsNull(last.results[3])
  /\ last.results[2].timestamp = last.results[3].timestamp
  /\ last.results[2].timestamp > 0
  /\ last.written = last.results[2]

C4_OneWriteThenOneRound ==
  /\ last.done =>
       /\ last.writes = 1
       /\ last.rounds = 1
       /\ last.held = last.written
       /\ last.notified = last.written
       /\ getCurrentRate = last.written
  /\ notify.active => (last.done /\ notify.rate = last.written)

C4_Witness ==
  /\ last.done
  /\ last.written.source = "fallback"
  /\ round.done
  /\ Len(round.called) = 2

\* the round walked registrations of pairwise different callback functions
DistinctCallbacks(q) == \A i, j \in 1..Len(q) : q[i].cb = q[j].cb => i = j

\* C5: when a callback invokes an unsubscribe closure during a notification
\* round, every other subscriber registered at the start of the round and not
\* itself unsubscribed is called exactly once in the round.  (Stated for
\* rounds over pairwise different callback functions, where a closure removes
\* the registration it was returned for.)
C5_NoSkipNoDuplicate ==
  (round.done /\ DistinctCallbacks(round.start)) =>
    \A i \in 1..Len(round.start) :
      round.start[i].reg \notin round.removed =>
        Count(round.called, round.start[i].reg) = 1

\* C6: when a callback throws during a notification round, the subscribers
\* after it in subscription order (those not unsubscribed in the round) are
\* still called in that round, and the resolve cycle completes with the
\* current-rate slot holding the rate it wrote.
C6_ThrowDoesNotStopDelivery ==
  (round.done /\ DistinctCallbacks(round.start)) =>
    /\ \A i, j \in 1..Len(round.start) :
         (i < j /\ round.start[i].reg \in round.threw
                /\ round.start[j].reg \notin round.removed)
           => Count(round.called, round.start[j].reg) >= 1
    /\ last.done /\ getCurrentRate = last.written

\* C7: after destroy(), and for as long as the user calls nothing else, no
\* periodic timer is active and no subscriber callback is invoked, whatever
\* was in flight when destroy() was called.
C7_NothingAfterDestroy == quiet => (timers = {} /\ ~late)

\* C8: at most one periodic timer is active, and it is the one whose id the
\* service holds: every start of the periodic updates cancels the timer that
\* was active before it installs the new one.
C8_AtMostOneTimer ==
  /\ Cardinality(timers) <= 1
  /\ \A t \in timers : t.id = updateTimer

C8_Witness ==
  /\ initDone
  /\ calls = MaxCalls
  /\ timers = {[id |-> 1, period |-> 60000]}

\* C9: no two resolve cycles started by the scheduler (the constructor's
\* initial resolution, a timer tick) are in progress at the same time.  (Only
\* cycles that can still finish are counted.)
C9_NoOverlap ==
  Cardinality({n \in 1..Len(cycles) :
                 cycles[n].st = "await" /\ cycles[n].kind \in {"init", "timer"}}) <= 1

\* C10: every network call of a resolve cycle is bounded by a timeout, so a
\* cycle in flight is never left waiting for a call that cannot settle: when
\* no callback is running, the cycle's next step can be taken.
C10_EveryCycleCanProceed ==
  \A n \in 1..MaxCycles :
    (n <= Len(cycles) /\ ~notify.active) => ENABLED CycleStep(n)

\* the kinds of provider behaviour that give no usable value
Failures ==
  {"neterr", "hang", "http", "badjson", "missing", "nan", "zero", "negative"}

\* every request of the probed source fails at the provider
AllFail(p) ==
  \A key \in SourceKeys(p.source) :
    \E kind \in Failures : p.up[key] = UpstreamOf(key, kind)

\* C11: whatever failures the network calls of a source meet (transport
\* error, timeout, error status, unparsable body, missing or invalid rate
\* field) in the direct and in the relay attempt, the adapter returns, and it
\* returns absent when no step succeeds; no exception reaches the resolver.
C11_AbsentNeverThrows ==
  probe.op = "fetch" =>
    /\ probe.st \in {"relay", "done"}
    /\ (probe.st = "done" /\ AllFail(probe)) => IsNull(probe.result)

\* C12: every rate an adapter returns is a finite number greater than zero: a
\* provider value that is NaN, zero, negative or infinite is treated as absent.
C12_FinitePositiveRate ==
  (probe.op = "fetch" /\ probe.st = "done" /\ ~IsNull(probe.result)) =>
    (probe.result.rate > 0 /\ probe.result.rate < PosInf)

\* C13: an updateConfig that supplies a new updateInterval restarts the
\* periodic timer (the old timer is cancelled and one with the new period is
\* started), whatever the value supplied; an updateConfig that supplies only
\* other fields leaves the timer as it is.
C13_ConfigRestartsTimer ==
  [][(config' # config) =>
       IF config'.updateInterval # config.updateInterval
       THEN /\ updateTimer' # 0
            /\ timers' = {[id |-> updateTimer', period |-> config'.updateInterval]}
       ELSE UNCHANGED <<timers, updateTimer>>]_vars

\* C14: the relay answers 400 with an error body when source or symbol is
\* missing, when the source is none of the three providers, or when the symbol
\* is not the one symbol coingecko accepts; it answers 500 with an error body
\* when the provider cannot be reached; and when the provider answers (with an
\* error status, or with a JSON body) it forwards that body unchanged together
\* with the provider's status code.
C14_RelayStatusAndBody ==
  probe.op = "relay" =>
    LET r == probe.resp
        u == probe.up
    IN IF probe.source = "" \/ probe.symbol = ""
          \/ probe.source \notin KnownSources
          \/ (probe.source = "coingecko" /\ probe.symbol # "USDCGHS")
       THEN r.status = 400 /\ r.err # ""
       ELSE IF u.k \in {"neterr", "hang"}
       THEN r.status = 500 /\ r.err # ""
       ELSE (u.k \in {"http", "ok"} /\ u.f # "inf") =>
              r = Resp(u.status, u.err, u.f, u.v)

\* C15: isRateStale(m) is true exactly when the held rate is more than m minutes
\* old (now minus its timestamp, strictly greater): at exactly m minutes it is
\* false, one millisecond later it is true; m is 5 when no argument is given.
C15_StaleIffOlderThanThreshold ==
  (probe.op = "stale" /\ ~IsNull(probe.rate)) =>
    LET m == IF probe.arg = <<>> THEN 5 ELSE probe.arg[1] IN
    probe.stale <=> (probe.nowMs - probe.rate.timestamp > m * 60000)

C15_Witness ==
  /\ probe.op = "stale"
  /\ ~IsNull(probe.rate)
  /\ probe.arg = <<>>
  /\ probe.rate.timestamp > 0
  /\ probe.nowMs - probe.rate.timestamp = 300000
  /\ ~probe.stale

\* the rate the conversions are to use: the held rate, the configured
\* fallbackRate when none is held
RateInUse == IF IsNull(currentRate) THEN config.fallbackRate ELSE currentRate.rate

\* C16: convertGhsToUsdc divides and convertUsdcToGhs multiplies by the same
\* rate r (the held rate, or fallbackRate when none is held), so for a finite
\* r > 0 converting an amount to USDC and back, with no write in between,
\* gives the amount again.
C16_RoundTrip ==
  (RateInUse > 0 /\ RateInUse < PosInf) =>
    \A a \in Amounts :
      /\ convertUsdcToGhs(convertGhsToUsdc(a)) = Reduce(a)
      /\ convertGhsToUsdc(a).n * RateInUse * a.d = a.n * Scale * convertGhsToUsdc(a).d

C16_Witness ==
  /\ ~IsNull(currentRate)
  /\ currentRate.rate # config.fallbackRate
  /\ convertGhsToUsdc(Frac(5, 2)) # Frac(5, 2)
  /\ convertUsdcToGhs(convertGhsToUsdc(Frac(5, 2))) = Frac(5, 2)

\* C17: an adapter run tries its strategies in order and stops at the first
\* success: the relay is contacted only after the direct attempt for the same
\* source has been made and has failed, never when the direct attempt gave a
\* result; an unknown source yields absent without any network call.
C17_StrictStrategyOrder ==
  probe.op = "fetch" =>
    /\ probe.source \notin KnownSources =>
         (probe.log = <<>> /\ probe.st = "done" /\ IsNull(probe.result))
    /\ \A i \in 1..Len(probe.log) :
         probe.log[i] \in ProxyKeys =>
           /\ IsNull(probe.direct)
           /\ ProxyRequest(probe.log[i]).source = probe.source
           /\ \E j \in 1..(i - 1) : probe.log[j] \in DirectKeys
           /\ \A j \in i..Len(probe.log) : probe.log[j] \in ProxyKeys
    /\ ~IsNull(probe.direct) => (probe.st = "done" /\ probe.result = probe.direct)
    /\ (probe.st = "done" /\ IsNull(probe.direct)) => probe.result = probe.relay

C17_Witness ==
  /\ probe.op = "fetch"
  /\ probe.source = "binance"
  /\ probe.st = "done"
  /\ IsNull(probe.direct)
  /\ ~IsNull(probe.relay)
  /\ probe.result = probe.relay
  /\ \E i \in 1..Len(probe.log) : probe.log[i] \in ProxyKeys

\* the provider gives a usable (finite, positive) value for the request key
Valid(up, key) == up[key].k = "ok" /\ up[key].f = "num" /\ up[key].v > 0
\* none of the provider's values is infinite
NoInf(up) == \A key \in DirectKeys : up[key].f # "inf"

\* C18: binance's direct derivation, given a valid USDCUSDT value u, returns at
\* the first step that succeeds: (a) a valid USDTGHS value g gives u * g,
\* labelled "binance"; (b) only if (a) is unavailable, a valid GHSUSDT value h
\* gives u / h; (c) only if both are unavailable, a valid USDTUSD value d gives
\* u * d / 0.061, labelled "binance-fallback"; if u is invalid or (c) fails too
\* there is no result.
C18_BinanceDerivationChain ==
  (probe.op = "routes" /\ probe.source = "binance" /\ NoInf(probe.up)) =>
    LET up == probe.up
        u == up["bn:USDCUSDT"].v
        g == up["bn:USDTGHS"].v
        h == up["bn:GHSUSDT"].v
        d == up["bn:USDTUSD"].v
    IN probe.direct =
         IF ~Valid(up, "bn:USDCUSDT") THEN Null
         ELSE IF Valid(up, "bn:USDTGHS") THEN Rate(Mul(u, g), now, "binance")
         ELSE IF Valid(up, "bn:GHSUSDT") THEN Rate(Div(u, h), now, "binance")
         ELSE IF Valid(up, "bn:USDTUSD")
              THEN Rate(Div(Mul(u, d), GhsToUsd), now, "binance-fallback")
              ELSE Null

\* the label of a relay result that corresponds to a direct label
ProxyLabel(label) ==
  CASE label = "binance" -> "binance-proxy"
    [] label = "binance-fallback" -> "binance-proxy-fallback"
    [] label = "coingecko" -> "coingecko-proxy"
    [] label = "coinbase" -> "coinbase-proxy"
    [] OTHER -> label

\* the provider behaviours the equivalence is stated for: a valid value, an
\* invalid value, an error status, a transport failure
Settled(p) ==
  \A key \in SourceKeys(p.source) :
    \E kind \in {"valid", "missing", "nan", "zero", "negative", "http", "neterr"} :
      p.up[key] = UpstreamOf(key, kind)

\* C19: over the same provider outcomes the relay attempt of a source yields a
\* result exactly when its direct attempt does, with the same rate, the label
\* differing only by the proxy marker.
C19_RelayEqualsDirect ==
  (probe.op = "routes" /\ Settled(probe)) =>
    IF IsNull(probe.direct) THEN IsNull(probe.relay)
    ELSE probe.relay = Rate(probe.direct.rate, probe.direct.timestamp,
                            ProxyLabel(probe.direct.source))

\* the callback functions of a registry, in order
Cbs(q) == [i \in 1..Len(q) |-> q[i].cb]
\* a registry without the registration reg
Without(q, reg) == SelectSeq(q, LAMBDA e : e.reg # reg)

\* C20: invoking an unsubscribe handle removes the registration made by the
\* subscribe call that returned it and no other; invoking it again, or after
\* destroy, leaves the registry as it is, also when the same callback function
\* is subscribed more than once.
C20_HandleRemovesOwnRegistration ==
  probe.op = "unsubscribe" =>
    Cbs(probe.after) = Cbs(Without(probe.before, probe.h.reg))

\* C21: whatever the interleaving of resolve cycles (timer cycles and
\* forceUpdate calls in flight together), the timestamp of the rate held in
\* the current-rate slot never decreases from one write to the next.  (Stated
\* for two writes in a row that are both made by cycles the timer or
\* forceUpdate started, after the initial resolution has completed.)
C21_TimestampNeverDecreases ==
  [][(/\ initDone
      /\ last.done /\ last.kind \in {"timer", "force"}
      /\ last.written = currentRate
      /\ last'.done /\ last'.kind \in {"timer", "force"}) =>
       currentRate'.timestamp >= currentRate.timestamp]_vars

====
